---- MODULE Spec2Model ----
(***************************************************************************)
(* A model of the metatype crate (src/src/lib.rs): the three-way shape     *)
(* classification of types, the decomposition of a pointer into a thin     *)
(* address plus metadata and its reconstitution, the type-equality         *)
(* coercion, and the 64-bit type identifier.                               *)
(*                                                                         *)
(* The crate is a library of pure functions.  The state of the model is    *)
(* the state of a caller: the value it holds a pointer to and the          *)
(* registers holding what the calls returned.                              *)
(***************************************************************************)
EXTENDS Integers, Sequences, FiniteSets, TLC

\* ------------------------------------------------------------------ bounds

\* Longest live slice / str / unsized-tail value (in elements).
MaxLen == 2
\* A length that belongs to no live value (tests::abc uses Slice { len: 100 }).
BigLen == 100

\* Distinct values of one type handed to the coercions.
MaxVal == 1
\* Width of the scaled-down hash output (64 in the crate) and calls per run.
HashBits == 3
MaxCalls == 3

\* #[repr(align(64))] struct Backing(u8): its alignment, and so its size.
BackingAlign == 64
\* Highest multiple of BackingAlign the linker may place BACKING at.
MaxBackingSlot == 2

\* ------------------------------------------------------------------- types

(* A type descriptor.  form: how the compiler sees the type;                *)
(*   "sized"  statically sized (size, align are size_of / align_of)        *)
(*   "slice"  [E] for the sized type named elem                           *)
(*   "str"    str                                                         *)
(*   "dyn"    a trait object type (dyn Trait)                             *)
(*   "dst"    a struct whose last field is a slice (std::path::Path)      *)
(*   "extern" an extern type (no pointer metadata, size unknown)          *)
(* lt: the lifetime argument of the type, "-" when it has none.           *)
Ty(name, form, size, align, elem, lt) ==
  [name |-> name, form |-> form, size |-> size, align |-> align,
   elem |-> elem, lt |-> lt]

\* pub struct TraitObject { pub vtable: &'static () }
TraitObjectTy == Ty("TraitObject", "sized", 8, 8, "-", "-")
\* pub struct Slice { pub len: usize }
SliceTy == Ty("Slice", "sized", 8, 8, "-", "-")
\* pub struct Concrete;
ConcreteTy == Ty("Concrete", "sized", 0, 1, "-", "-")

SizedTypes ==
  { Ty("u8", "sized", 1, 1, "-", "-"),
    Ty("usize", "sized", 8, 8, "-", "-"),
    Ty("()", "sized", 0, 1, "-", "-"),
    Ty("String", "sized", 24, 8, "-", "-"),
    Ty("[i32; 2]", "sized", 8, 4, "-", "-"),
    Ty("Box<dyn Any>", "sized", 16, 8, "-", "-"),
    Ty("Box<[usize]>", "sized", 16, 8, "-", "-"),
    Ty("&str", "sized", 16, 8, "-", "a"),
    Ty("&str", "sized", 16, 8, "-", "static"),
    Ty("Align128", "sized", 128, 128, "-", "-"),
    TraitObjectTy, SliceTy, ConcreteTy }

SliceTypes ==
  { Ty("[u8]", "slice", 0, 1, "u8", "-"),
    Ty("[usize]", "slice", 0, 1, "usize", "-"),
    Ty("[String]", "slice", 0, 1, "String", "-"),
    Ty("[()]", "slice", 0, 1, "()", "-") }

StrTy == Ty("str", "str", 0, 1, "u8", "-")
DynAnyTy == Ty("dyn Any", "dyn", 0, 1, "-", "-")
PathTy == Ty("Path", "dst", 0, 1, "u8", "-")
OpaqueTy == Ty("Opaque", "extern", 0, 1, "-", "-")

UnsizedTypes == SliceTypes \cup {StrTy, DynAnyTy, PathTy, OpaqueTy}
Types == SizedTypes \cup UnsizedTypes

\* The element type of [E], str (its bytes) or of the slice tail of a dst.
ElemOf(T) == CHOOSE E \in SizedTypes : E.name = T.elem /\ E.lt = "-"

\* ----------------------------------------------------- MetaType and impls

\* T: Sized
IsSized(T) == T.form = "sized"

(* The impls of Type that apply to T, by the impl headers:                  *)
(*   impl<T: ?Sized> Type for T   (every item `default`)                    *)
(*   impl<T: Sized> Type for T                                              *)
(*   impl<T: Sized> Type for [T]                                            *)
(*   impl Type for str                                                      *)
Applicable(T) ==
  {"Default"}
    \cup (IF IsSized(T) THEN {"Sized"} ELSE {})
    \cup (IF T.form = "slice" /\ IsSized(ElemOf(T)) THEN {"Slice"} ELSE {})
    \cup (IF T.form = "str" THEN {"Str"} ELSE {})

\* impl i specializes impl j: only the blanket impl is specializable.
Specializes(i, j) == i # "Default" /\ j = "Default"

\* A plausible slip: the blanket impl wins whenever it applies.
SelectedImplNoSpecificity(T) == "Default"

\* Specialization picks the most specific applicable impl.
SelectedImpl(T) ==
  CHOOSE i \in Applicable(T) :
    \A j \in Applicable(T) \ {i} : Specializes(i, j)

\* const METATYPE
METATYPE(T) ==
  CASE SelectedImpl(T) = "Sized" -> "Concrete"
    [] SelectedImpl(T) = "Slice" -> "Slice"
    [] SelectedImpl(T) = "Str" -> "Slice"
    [] OTHER -> "TraitObject"

\* type Meta
MetaTy(T) ==
  CASE SelectedImpl(T) = "Sized" -> ConcreteTy
    [] SelectedImpl(T) = "Slice" -> SliceTy
    [] SelectedImpl(T) = "Str" -> SliceTy
    [] OTHER -> TraitObjectTy

\* ------------------------------------------------------- metadata values

Concrete == [tag |-> "Concrete", len |-> 0, vtable |-> 0]
Slice(len) == [tag |-> "Slice", len |-> len, vtable |-> 0]
TraitObject(vtable) == [tag |-> "TraitObject", len |-> 0, vtable |-> vtable]
NoMeta == [tag |-> "-", len |-> 0, vtable |-> 0]

\* ------------------------------------------------------------- coercions

Some(v) == [some |-> TRUE, v |-> v]
None == [some |-> FALSE, v |-> NoMeta]

(* Under #![feature(specialization)] the impl of a `default fn` is chosen   *)
(* at monomorphization, where the compiler has erased every lifetime: two  *)
(* instantiations that differ only in lifetimes are one instantiation to   *)
(* it.  A and B are unconstrained (no 'static bound), so they may carry    *)
(* lifetimes.                                                              *)
Erase(T) == [T EXCEPT !.lt = IF T.lt = "-" THEN "-" ELSE "erased"]

(* The impl of Eq<B> selected for Foo<A, B>:                                *)
(*   impl<A, B> Eq<B> for Foo<A, B>  (default fn eq: None)                  *)
(*   impl<A> Eq<A> for Foo<A, A>     (fn eq: Some(self.0))                  *)
EqImpl(A, B) == IF Erase(A) = Erase(B) THEN "Reflexive" ELSE "Default"

\* try_type_coerce::<A, B>(a)
try_type_coerce(A, B, a) ==
  IF EqImpl(A, B) = "Reflexive" THEN Some(a) ELSE None

\* type_coerce::<A, B>(a): unwrap_or_else(|| panic!(..type_name A, B..))
type_coerce(A, B, a) ==
  LET r == try_type_coerce(A, B, a)
  IN IF r.some
       THEN [st |-> "ok", v |-> r.v, msg |-> <<>>]
       ELSE [st |-> "panic", v |-> NoMeta,
             msg |-> <<"can't coerce", A.name, B.name>>]

\* ------------------------------------------------------ pointer metadata

\* <T as Pointee>::Metadata
PointeeMetadata(T) ==
  CASE T.form \in {"sized", "extern"} -> "()"
    [] T.form \in {"slice", "str", "dst"} -> "usize"
    [] OTHER -> "DynMetadata"

\* (size_of, align_of) of the representations transmute_coerce bridges.
Layout(R) == IF R = "()" THEN <<0, 1>> ELSE <<8, 8>>

\* A plausible slip: reinterpret without the size / alignment check.
transmute_unchecked(A, B, w) ==
  [ok |-> TRUE, from |-> A, to |-> B, in |-> w, out |-> w,
   dropped |-> FALSE, msg |-> <<>>]

(* transmute_coerce::<A, B>(a): assert_eq! on (size_of, align_of), then     *)
(* transmute_copy and forget(a).                                           *)
transmute_coerce(A, B, w) ==
  IF Layout(A) = Layout(B)
    THEN [ok |-> TRUE, from |-> A, to |-> B, in |-> w, out |-> w,
          dropped |-> FALSE, msg |-> <<>>]
    ELSE [ok |-> FALSE, from |-> A, to |-> B, in |-> w, out |-> 0,
          dropped |-> FALSE,
          msg |-> <<"can't transmute_coerce", A, B>>]

NoTc ==
  [ok |-> TRUE, from |-> "-", to |-> "-", in |-> 0, out |-> 0,
   dropped |-> FALSE, msg |-> <<>>]

\* ------------------------------------------------------ pointers, values

(* A vtable: its address and the size and alignment slots of the backing    *)
(* type it was generated for.                                              *)
VTables ==
  { [addr |-> 4096, backing |-> "usize", size |-> 8, align |-> 8],
    [addr |-> 4128, backing |-> "u8", size |-> 1, align |-> 1],
    [addr |-> 4160, backing |-> "String", size |-> 24, align |-> 8],
    [addr |-> 4192, backing |-> "Align128", size |-> 128, align |-> 128] }

VTableAt(w) == CHOOSE v \in VTables : v.addr = w

\* A (possibly fat) pointer: the data address and the metadata word.
Ptr(addr, k, w) == [addr |-> addr, md |-> [k |-> k, w |-> w]]
NoPtr == Ptr(0, "-", 0)

\* Where live values are placed (aligned for every modelled type).
LiveAddrs == {1152}

(* The live values of type T a caller can hold: n elements for a slice, a   *)
(* str or an unsized tail; the vtable of the backing type for a trait      *)
(* object.                                                                 *)
LiveValues(T) ==
  CASE T.form \in {"slice", "str", "dst"} ->
         { [addr |-> a, n |-> n, vt |-> 0] : a \in LiveAddrs, n \in 0 .. MaxLen }
    [] T.form = "dyn" ->
         { [addr |-> a, n |-> 0, vt |-> v.addr] : a \in LiveAddrs, v \in VTables }
    [] OTHER -> { [addr |-> a, n |-> 0, vt |-> 0] : a \in LiveAddrs }

\* The bytes a live value occupies.
ValueBytes(T, val) ==
  CASE T.form = "sized" -> T.size
    [] T.form \in {"slice", "str", "dst"} -> ElemOf(T).size * val.n
    [] T.form = "dyn" -> VTableAt(val.vt).size
    [] OTHER -> 0

\* &value as *const T: the pointer the compiler builds to a live value.
RefTo(T, val) ==
  CASE T.form \in {"slice", "str", "dst"} -> Ptr(val.addr, "usize", val.n)
    [] T.form = "dyn" -> Ptr(val.addr, "DynMetadata", val.vt)
    [] OTHER -> Ptr(val.addr, "()", 0)

\* mem::size_of_val, as the compiler computes it from the pointer.
size_of_val(T, p) ==
  CASE T.form = "sized" -> T.size
    [] T.form \in {"slice", "str", "dst"} -> ElemOf(T).size * p.md.w
    [] T.form = "dyn" -> VTableAt(p.md.w).size
    [] OTHER -> 0

\* mem::align_of_val
align_of_val(T, p) ==
  CASE T.form = "sized" -> T.align
    [] T.form \in {"slice", "str", "dst"} -> ElemOf(T).align
    [] T.form = "dyn" -> VTableAt(p.md.w).align
    [] OTHER -> 1

\* slice.len() / str.len()
len(p) == p.md.w

\* ---------------------------------------------------------- Type::meta

MetaRes(st, val, tc, msg) == [st |-> st, val |-> val, tc |-> tc, msg |-> msg]

(* Reinterpreting the word 0 as &'static () makes an invalid reference      *)
(* (undefined behaviour): the build carries the word on, or stops, as when *)
(* the Option<TraitObject> inside type_coerce reads the null as None.      *)
MetaIsUB(T, p) ==
  /\ SelectedImpl(T) = "Default"
  /\ Layout(PointeeMetadata(T)) = Layout("&'static ()")
  /\ p.md.w = 0

\* A plausible slip: the length is taken from the byte size.
SliceMetaByBytes(T, p) ==
  MetaRes("ok", Slice(size_of_val(T, p)), NoTc, <<>>)

\* <[T] as Type>::meta
SliceMeta(T, p) ==
  IF <<size_of_val(T, p), align_of_val(T, p)>>
       = <<ElemOf(T).size * len(p), ElemOf(T).align>>
    THEN MetaRes("ok", Slice(len(p)), NoTc, <<>>)
    ELSE MetaRes("panic", NoMeta, NoTc, <<"assertion failed">>)

\* <str as Type>::meta
StrMeta(T, p) ==
  IF <<size_of_val(T, p), align_of_val(T, p)>> = <<len(p), 1>>
    THEN MetaRes("ok", Slice(len(p)), NoTc, <<>>)
    ELSE MetaRes("panic", NoMeta, NoTc, <<"assertion failed">>)

\* The default meta: transmute_coerce(ptr::metadata(self)), then type_coerce.
DefaultMeta(T, p) ==
  LET tc == transmute_coerce(PointeeMetadata(T), "&'static ()", p.md.w)
      c == type_coerce(TraitObjectTy, MetaTy(T), TraitObject(tc.out))
  IN IF ~tc.ok THEN MetaRes("panic", NoMeta, tc, tc.msg)
     ELSE IF c.st # "ok" THEN MetaRes("panic", NoMeta, tc, c.msg)
     ELSE MetaRes("ok", c.v, tc, <<>>)

\* Type::meta(self), dispatched to the selected impl.
meta(T, p) ==
  CASE SelectedImpl(T) = "Sized" -> MetaRes("ok", Concrete, NoTc, <<>>)
    [] SelectedImpl(T) = "Slice" -> SliceMeta(T, p)
    [] SelectedImpl(T) = "Str" -> StrMeta(T, p)
    [] OTHER -> DefaultMeta(T, p)

\* Type::data / Type::data_mut: self.cast() in every impl.
data(T, p) == p.addr
data_mut(T, p) == p.addr

\* -------------------------------------------------------- Type::fatten

FatRes(st, ptr, tc, msg) == [st |-> st, ptr |-> ptr, tc |-> tc, msg |-> msg]

\* A plausible slip: the rebuilt slice pointer loses its length.
SliceFattenNoLen(T, thin, t) ==
  FatRes("ok", Ptr(thin, "usize", 0), NoTc, <<>>)

\* <[T] as Type>::fatten: slice_from_raw_parts_mut(thin.cast(), t.len)
SliceFatten(T, thin, t) ==
  FatRes("ok", Ptr(thin, "usize", t.len), NoTc, <<>>)

\* The default fatten: type_coerce, then from_raw_parts_mut(thin, transmute_coerce(vtable)).
DefaultFatten(T, thin, t) ==
  LET c == type_coerce(MetaTy(T), TraitObjectTy, t)
      tc == transmute_coerce("*mut ()", PointeeMetadata(T), c.v.vtable)
  IN IF c.st # "ok" THEN FatRes("panic", NoPtr, NoTc, c.msg)
     ELSE IF ~tc.ok THEN FatRes("panic", NoPtr, tc, tc.msg)
     ELSE FatRes("ok", Ptr(thin, PointeeMetadata(T), tc.out), tc, <<>>)

\* Type::fatten(thin, t), dispatched to the selected impl.
fatten(T, thin, t) ==
  CASE SelectedImpl(T) = "Sized" -> FatRes("ok", Ptr(thin, "()", 0), NoTc, <<>>)
    [] SelectedImpl(T) = "Slice" -> SliceFatten(T, thin, t)
    \* <str as Type>::fatten: <[u8]>::fatten(thin, t) as *mut str
    [] SelectedImpl(T) = "Str" -> SliceFatten(T, thin, t)
    [] OTHER -> DefaultFatten(T, thin, t)

\* ------------------------------------------------------ Type::dangling

Probe(addr, align, size) ==
  [made |-> TRUE, addr |-> addr, align |-> align, size |-> size]
NoProbe == [made |-> FALSE, addr |-> 0, align |-> 1, size |-> 0]

DangRes(st, ptr, probe, tc, msg) ==
  [st |-> st, ptr |-> ptr, probe |-> probe, tc |-> tc, msg |-> msg]

\* NonNull::<E>::dangling(): the alignment of E as the address.
NonNullDangling(E) == E.align

\* Where the linker may place `static BACKING`: any multiple of its alignment.
BackingAddrs == { BackingAlign * k : k \in 1 .. MaxBackingSlot }

\* A plausible slip: the requested length is dropped.
SliceDanglingNoLen(T, t) ==
  DangRes("ok", Ptr(NonNullDangling(ElemOf(T)), "usize", 0), NoProbe, NoTc, <<>>)

\* A plausible slip: the address is taken from the element size.
SliceDanglingBySize(T, t) ==
  DangRes("ok", Ptr(ElemOf(T).size, "usize", t.len), NoProbe, NoTc, <<>>)

\* <[T] as Type>::dangling: slice_from_raw_parts_mut(NonNull::<T>::dangling(), t.len)
SliceDangling(T, t) ==
  DangRes("ok", Ptr(NonNullDangling(ElemOf(T)), "usize", t.len), NoProbe, NoTc, <<>>)

(* Whether `dangling_unaligned.as_ref()` makes an invalid reference: one    *)
(* that is misaligned for the value the metadata describes, or that spans  *)
(* more bytes than BACKING holds.                                          *)
ProbeIsUB(T, p) ==
  \/ p.addr % align_of_val(T, p) # 0
  \/ size_of_val(T, p) > BackingAlign

\* The one element of a singleton set: binds a computed value once.
Only(S) == CHOOSE x \in S : TRUE

\* NonNull::new(Self::fatten(thin, type_coerce(t))).unwrap()
NonNullFatten(T, thin, t) ==
  LET back == type_coerce(TraitObjectTy, MetaTy(T), t)
  IN IF back.st # "ok" THEN FatRes("panic", NoPtr, NoTc, back.msg)
     ELSE Only({ IF f.st = "ok" /\ f.ptr.addr = 0
                   THEN FatRes("panic", NoPtr, f.tc, <<"unwrap on None">>)
                   ELSE f
                 : f \in { fatten(T, thin, back.v) } })

(* The rest of the default dangling once the probe pointer f1 is built:     *)
(* as_ref(), align_of_val, and the final fatten at the measured alignment. *)
DanglingFromProbe(T, t, f1, ub) ==
  IF f1.st # "ok" THEN DangRes("panic", NoPtr, NoProbe, f1.tc, f1.msg)
  ELSE
    LET align == align_of_val(T, f1.ptr)
        probe == Probe(f1.ptr.addr, align, size_of_val(T, f1.ptr))
    IN IF ProbeIsUB(T, f1.ptr) /\ ub = "trap"
         THEN DangRes("trap", NoPtr, probe, f1.tc, <<"invalid reference">>)
         ELSE Only({ DangRes(f2.st, f2.ptr, probe, f2.tc, f2.msg)
                     : f2 \in { NonNullFatten(T, align, t) } })

(* The default dangling.  fake_thin is the address of BACKING; ub is the    *)
(* outcome of an invalid probe reference: the build proceeds to read the  *)
(* alignment, or a checking build traps.                                   *)
DefaultDangling(T, t, fake_thin, ub) ==
  LET c == type_coerce(MetaTy(T), TraitObjectTy, t)
  IN IF c.st # "ok" THEN DangRes("panic", NoPtr, NoProbe, NoTc, c.msg)
     ELSE Only({ DanglingFromProbe(T, c.v, f1, ub)
                 : f1 \in { NonNullFatten(T, fake_thin, c.v) } })

\* Whether dangling(t) makes an invalid probe reference with BACKING at fake_thin.
DanglingIsUB(T, t, fake_thin) ==
  /\ SelectedImpl(T) = "Default"
  /\ \E f1 \in { NonNullFatten(T, fake_thin, t) } :
       f1.st = "ok" /\ ProbeIsUB(T, f1.ptr)

\* BACKING is a static of the default dangling alone.
Backings(T) == IF SelectedImpl(T) = "Default" THEN BackingAddrs ELSE {0}

\* Type::dangling(t), dispatched to the selected impl.
dangling(T, t, fake_thin, ub) ==
  CASE SelectedImpl(T) = "Sized" ->
         DangRes("ok", Ptr(NonNullDangling(T), "()", 0), NoProbe, NoTc, <<>>)
    [] SelectedImpl(T) = "Slice" -> SliceDangling(T, t)
    \* <str as Type>::dangling: <[u8]>::dangling(t) as *mut str
    [] SelectedImpl(T) = "Str" -> SliceDangling(T, t)
    [] OTHER -> DefaultDangling(T, t, fake_thin, ub)

\* --------------------------------------------------------------- caller

VARIABLES
  self,     \* the type, a live value of it, and the pointer to the value
  shapeR,   \* what meta_type returned
  metaR,    \* what meta returned
  thinR,    \* what data / data_mut returned, and of which pointer (moved
            \* into the next fatten; dropped by the next dangling)
  fatR,     \* what fatten / dangling returned, and from which arguments
  coerceR,  \* the last try_type_coerce / type_coerce call and its outcome
  idsR,     \* the (type, identifier) pairs type_id has returned
  ncalls    \* how many times type_id has been called

vars == <<self, shapeR, metaR, thinR, fatR, coerceR, idsR, ncalls>>
ptrVars == <<self, shapeR, metaR, thinR, fatR>>

\* Metadata a caller can write down for T without a live value.
GivenMetas(T) ==
  CASE MetaTy(T) = ConcreteTy -> {Concrete}
    [] MetaTy(T) = SliceTy -> { Slice(n) : n \in {0, MaxLen, BigLen} }
    [] T.form = "dyn" -> { TraitObject(v.addr) : v \in VTables }
    [] T.form = "dst" -> { TraitObject(n) : n \in {1, MaxLen, BigLen} }
    [] OTHER -> { TraitObject(4096) }

\* Thin addresses a caller can write down: null and a misaligned one.
GivenAddrs == {0, 3}

UBOutcomes(isUB) == IF isUB THEN {"proceed", "trap"} ELSE {"proceed"}

NoTarget == [op |-> "none", ptr |-> NoPtr, thin |-> 0, t |-> NoMeta]
NoThin == [src |-> "none", addr |-> 0, of |-> NoTarget]
NoFat ==
  [op |-> "none", st |-> "ok", ptr |-> NoPtr, probe |-> NoProbe, tc |-> NoTc,
   msg |-> <<>>, thin |-> NoThin, t |-> NoMeta, tsrc |-> "none"]
NoMetaR ==
  [src |-> "none", st |-> "ok", val |-> NoMeta, tc |-> NoTc, msg |-> <<>>]

NoCoerce ==
  [op |-> "none", A |-> ConcreteTy, B |-> ConcreteTy, a |-> 0, st |-> "ok",
   some |-> FALSE, v |-> 0, msg |-> <<>>]

Init ==
  /\ \E T \in Types : \E val \in LiveValues(T) :
       self = [ty |-> T, val |-> val, ptr |-> RefTo(T, val)]
  /\ shapeR = "-"
  /\ metaR = NoMetaR
  /\ thinR = NoThin
  /\ fatR = NoFat
  /\ coerceR = NoCoerce
  /\ idsR = {}
  /\ ncalls = 0

(* Type::meta_type(self): Self::METATYPE.  The caller classifies first and  *)
(* decomposes and rebuilds afterwards.                                     *)
CallMetaType ==
  /\ shapeR = "-"
  /\ shapeR' = METATYPE(self.ty)
  /\ UNCHANGED <<self, metaR, thinR, fatR, coerceR, idsR, ncalls>>

\* Type::meta(&value)
CallMeta ==
  /\ shapeR # "-"
  /\ \E ub \in UBOutcomes(MetaIsUB(self.ty, self.ptr)) :
     \E r \in { meta(self.ty, self.ptr) } :
          metaR' =
            IF ub = "trap"
              THEN [src |-> "meta", st |-> "trap", val |-> NoMeta,
                    tc |-> r.tc, msg |-> <<"invalid reference">>]
              ELSE [src |-> "meta", st |-> r.st, val |-> r.val,
                    tc |-> r.tc, msg |-> r.msg]
  /\ UNCHANGED <<self, shapeR, thinR, fatR, coerceR, idsR, ncalls>>

\* The pointers the caller holds: to its live value, and the last one built.
Targets ==
  { [op |-> "self", ptr |-> self.ptr, thin |-> 0, t |-> NoMeta] }
    \cup (IF fatR.op # "none" /\ fatR.st = "ok"
            THEN { [op |-> fatR.op, ptr |-> fatR.ptr,
                    thin |-> fatR.thin.addr, t |-> fatR.t] }
            ELSE {})

\* Type::data(p), of any pointer the caller holds
CallData ==
  /\ shapeR # "-"
  /\ \E tgt \in Targets :
       thinR' = [src |-> "data", addr |-> data(self.ty, tgt.ptr), of |-> tgt]
  /\ UNCHANGED <<self, shapeR, metaR, fatR, coerceR, idsR, ncalls>>

\* Type::data_mut(&mut value)
CallDataMut ==
  /\ shapeR # "-"
  /\ LET tgt == [op |-> "self", ptr |-> self.ptr, thin |-> 0, t |-> NoMeta]
     IN thinR' = [src |-> "data_mut", addr |-> data_mut(self.ty, tgt.ptr), of |-> tgt]
  /\ UNCHANGED <<self, shapeR, metaR, fatR, coerceR, idsR, ncalls>>

ThinArgs ==
  { [src |-> "given", addr |-> a, of |-> NoTarget] : a \in GivenAddrs }
    \cup (IF thinR.src # "none" THEN {thinR} ELSE {})

MetaArgs ==
  { [src |-> "given", val |-> m] : m \in GivenMetas(self.ty) }
    \cup (IF metaR.src = "meta" /\ metaR.st = "ok"
            THEN { [src |-> "meta", val |-> metaR.val] }
            ELSE {})

\* Type::fatten(thin, t)
CallFatten ==
  /\ shapeR # "-"
  /\ \E th \in ThinArgs, t \in MetaArgs :
     \E r \in { fatten(self.ty, th.addr, t.val) } :
          fatR' = [op |-> "fatten", st |-> r.st, ptr |-> r.ptr, probe |-> NoProbe,
                   tc |-> r.tc, msg |-> r.msg, thin |-> th, t |-> t.val,
                   tsrc |-> t.src]
  /\ thinR' = NoThin
  /\ UNCHANGED <<self, shapeR, metaR, coerceR, idsR, ncalls>>

\* Type::dangling(t)
CallDangling ==
  /\ shapeR # "-"
  /\ \E t \in MetaArgs, b \in Backings(self.ty) :
     \E ub \in UBOutcomes(DanglingIsUB(self.ty, t.val, b)) :
     \E r \in { dangling(self.ty, t.val, b, ub) } :
          fatR' = [op |-> "dangling", st |-> r.st, ptr |-> r.ptr, probe |-> r.probe,
                   tc |-> r.tc, msg |-> r.msg, thin |-> NoThin, t |-> t.val,
                   tsrc |-> t.src]
  /\ thinR' = NoThin
  /\ UNCHANGED <<self, shapeR, metaR, coerceR, idsR, ncalls>>

Next ==
  \/ CallMetaType
  \/ CallMeta
  \/ CallData
  \/ CallDataMut
  \/ CallFatten
  \/ CallDangling

Spec == Init /\ [][Next]_vars

\* ------------------------------------------------- the coercions, called

\* Values of type A, told apart by a number.
Values(A) == 0 .. MaxVal

\* The types the coercions are instantiated with (A and B are unconstrained).
CoerceTypes ==
  { T \in Types : T.name \in {"u8", "usize", "&str", "str", "dyn Any",
                               "TraitObject", "Slice", "Concrete"} }

InitCoerce ==
  /\ self = [ty |-> ConcreteTy, val |-> [addr |-> 0, n |-> 0, vt |-> 0], ptr |-> NoPtr]
  /\ shapeR = "-"
  /\ metaR = NoMetaR
  /\ thinR = NoThin
  /\ fatR = NoFat
  /\ coerceR = NoCoerce
  /\ idsR = {}
  /\ ncalls = 0

\* try_type_coerce::<A, B>(a)
CallTryTypeCoerce ==
  /\ \E A \in CoerceTypes, B \in CoerceTypes : \E a \in Values(A) :
     \E r \in { try_type_coerce(A, B, a) } :
       coerceR' = [op |-> "try_type_coerce", A |-> A, B |-> B, a |-> a,
                   st |-> "ok", some |-> r.some,
                   v |-> IF r.some THEN r.v ELSE 0, msg |-> <<>>]
  /\ UNCHANGED <<ptrVars, idsR, ncalls>>

\* type_coerce::<A, B>(a)
CallTypeCoerce ==
  /\ \E A \in CoerceTypes, B \in CoerceTypes : \E a \in Values(A) :
     \E r \in { type_coerce(A, B, a) } :
       coerceR' = [op |-> "type_coerce", A |-> A, B |-> B, a |-> a,
                   st |-> r.st, some |-> r.st = "ok",
                   v |-> IF r.st = "ok" THEN r.v ELSE 0, msg |-> r.msg]
  /\ UNCHANGED <<ptrVars, idsR, ncalls>>

NextCoerce ==
  \/ CallTryTypeCoerce
  \/ CallTypeCoerce

SpecCoerce == InitCoerce /\ [][NextCoerce]_vars

\* ------------------------------------------------------------- type_id

(* The types type_id is called with (T: ?Sized + 'static): the arrays       *)
(* [u8; N], as many as there are hash values, and some of the others.      *)
ArrayTy(n) == Ty("[u8; N]", "sized", n, 1, "u8", "-")
IdTypes ==
  { ArrayTy(n) : n \in 0 .. (2 ^ HashBits - 1) }
    \cup { T \in Types : T.name \in {"usize", "str", "dyn Any"} }

\* TypeId::of::<T>(): a token that differs for any two types.
TypeIdOf(T) ==
  CASE T.name = "[u8; N]" -> T.size
    [] T.name = "usize" -> 2 ^ HashBits
    [] T.name = "str" -> 2 ^ HashBits + 1
    [] OTHER -> 2 ^ HashBits + 2

\* DefaultHasher::new(): the keys are fixed.
DefaultHasherNew == [k0 |-> 0, k1 |-> 0]

\* type_id.hash(&mut hasher); hasher.finish(): a keyed mix, cut to the width.
HashFinish(hasher, token) ==
  ((token + hasher.k0) * 5 + hasher.k1 * 3 + 1) % (2 ^ HashBits)

\* type_id::<T>()
type_id(T) == HashFinish(DefaultHasherNew, TypeIdOf(T))

\* A call of type_id::<T>() by the caller.
CallTypeId ==
  /\ ncalls < MaxCalls
  /\ \E T \in IdTypes : idsR' = idsR \cup { [ty |-> T, id |-> type_id(T)] }
  /\ ncalls' = ncalls + 1
  /\ UNCHANGED <<ptrVars, coerceR>>

NextTypeId == CallTypeId

InitTypeId == InitCoerce

SpecTypeId == InitTypeId /\ [][NextTypeId]_vars

\* ================================================================ claims

(* C1: METATYPE (and meta_type on a pointer) is Concrete exactly for the    *)
(* sized types, Slice for [E] and str, and TraitObject for every other     *)
(* unsized type; a slice or str never gets the TraitObject default.        *)
C1_Classification ==
  shapeR # "-" =>
    /\ shapeR \in {"Concrete", "Slice", "TraitObject"}
    /\ shapeR = "Concrete" <=> self.ty.form = "sized"
    /\ self.ty.form \in {"slice", "str"} => shapeR = "Slice"
    /\ self.ty.form \in {"dyn", "dst", "extern"} => shapeR = "TraitObject"

\* str, to which the blanket impl applies too, has been classified.
C1_Witness == shapeR = "Slice" /\ self.ty.form = "str"

RequiredAlign(T, t) ==
  CASE T.form = "sized" -> T.align
    [] T.form = "slice" -> ElemOf(T).align
    [] T.form = "str" -> 1
    [] T.form = "dyn" -> VTableAt(t.vtable).align
    [] OTHER -> ElemOf(T).align

(* C5: the pointer dangling(m) returns is never null and is aligned: its    *)
(* address is a multiple of the alignment an alignment query on it         *)
(* reports, which is the alignment of the type, of the element, 1 for str, *)
(* and that of the backing type of m's vtable for a trait object.          *)
C5_DanglingAligned ==
  (fatR.op = "dangling" /\ fatR.st = "ok") =>
    /\ fatR.ptr.addr # 0
    /\ fatR.ptr.addr % align_of_val(self.ty, fatR.ptr) = 0
    /\ align_of_val(self.ty, fatR.ptr) = RequiredAlign(self.ty, fatR.t)
    /\ fatR.ptr.addr = RequiredAlign(self.ty, fatR.t)

\* dangling has returned for a trait object backed by the over-aligned type.
C5_Witness ==
  /\ fatR.op = "dangling"
  /\ fatR.st = "ok"
  /\ self.ty.form = "dyn"
  /\ VTableAt(fatR.t.vtable).backing = "Align128"

(* C6: meta of a live slice or str returns Slice{len} with len the element  *)
(* count; len * size_of(E) is the byte size of the value and align_of(E)   *)
(* its alignment (for str the byte size is len and the alignment 1); meta  *)
(* returns only when that holds.                                           *)
C6_SliceMeta ==
  (metaR.src = "meta" /\ self.ty.form \in {"slice", "str"}) =>
    /\ metaR.st \in {"ok", "panic"}
    /\ metaR.st = "ok" =>
         /\ metaR.val = Slice(self.val.n)
         /\ metaR.val.len * ElemOf(self.ty).size = ValueBytes(self.ty, self.val)
         /\ ElemOf(self.ty).align = align_of_val(self.ty, self.ptr)
         /\ self.ty.form = "str" =>
              /\ metaR.val.len = ValueBytes(self.ty, self.val)
              /\ align_of_val(self.ty, self.ptr) = 1
    /\ metaR.st = "ok" <=>
         <<size_of_val(self.ty, self.ptr), align_of_val(self.ty, self.ptr)>>
           = <<ElemOf(self.ty).size * self.val.n, ElemOf(self.ty).align>>

\* meta has returned for a live slice of MaxLen elements of 8 bytes.
C6_Witness ==
  /\ metaR.src = "meta"
  /\ metaR.st = "ok"
  /\ self.ty.name = "[usize]"
  /\ self.val.n = MaxLen

\* What transmute_coerce promises of one call.
TransmuteChecked(tc) ==
  /\ tc.ok <=> Layout(tc.from) = Layout(tc.to)
  /\ tc.ok => tc.out = tc.in /\ ~tc.dropped
  /\ ~tc.ok => tc.msg = <<"can't transmute_coerce", tc.from, tc.to>>

(* C8: in the TraitObject shape, meta and fatten reinterpret between the    *)
(* vtable reference and the pointer metadata through transmute_coerce      *)
(* alone: it aborts, naming both types, when size or alignment differ, and *)
(* returns the same bits, the source not dropped, when both are equal.     *)
C8_TransmuteChecked ==
  /\ (metaR.src = "meta" /\ shapeR = "TraitObject") =>
       /\ metaR.tc.from = PointeeMetadata(self.ty)
       /\ metaR.tc.to = "&'static ()"
       /\ metaR.tc.in = self.ptr.md.w
       /\ TransmuteChecked(metaR.tc)
       /\ ~metaR.tc.ok => metaR.st = "panic" /\ metaR.msg = metaR.tc.msg
       /\ metaR.st = "ok" => metaR.val = TraitObject(self.ptr.md.w)
  /\ (fatR.op = "fatten" /\ shapeR = "TraitObject") =>
       /\ fatR.tc.from = "*mut ()"
       /\ fatR.tc.to = PointeeMetadata(self.ty)
       /\ fatR.tc.in = fatR.t.vtable
       /\ TransmuteChecked(fatR.tc)
       /\ ~fatR.tc.ok => fatR.st = "panic" /\ fatR.msg = fatR.tc.msg
       /\ fatR.st = "ok" => fatR.ptr.md.w = fatR.t.vtable

\* meta has aborted on a type whose pointer metadata is not one word.
C8_Witness ==
  /\ metaR.src = "meta"
  /\ metaR.st = "panic"
  /\ ~metaR.tc.ok
  /\ self.ty.form = "extern"

\* The metadata a built pointer of type T carries, as a Meta value.
Carried(T, p) ==
  CASE METATYPE(T) = "Concrete" -> Concrete
    [] METATYPE(T) = "Slice" -> Slice(p.md.w)
    [] OTHER -> TraitObject(p.md.w)

(* C9: fatten is a right inverse too: whenever fatten(a, m) returns,        *)
(* data of the pointer is a and the pointer carries m; the pointer         *)
(* dangling(m) returns carries m; and fatten(data(dangling(m)), m) is      *)
(* dangling(m).                                                            *)
C9_RightInverse ==
  /\ (thinR.src = "data" /\ thinR.of.op = "fatten") =>
       thinR.addr = thinR.of.thin
  /\ (fatR.op \in {"fatten", "dangling"} /\ fatR.st = "ok") =>
       Carried(self.ty, fatR.ptr) = fatR.t
  /\ ( /\ fatR.op = "fatten"
       /\ fatR.thin.src = "data"
       /\ fatR.thin.of.op = "dangling"
       /\ fatR.thin.of.t = fatR.t )
     => fatR.st = "ok" /\ fatR.ptr = fatR.thin.of.ptr

\* [String]'s dangling(Slice{len: 100}) has been taken apart and rebuilt.
C9_Witness ==
  /\ fatR.op = "fatten"
  /\ fatR.thin.src = "data"
  /\ fatR.thin.of.op = "dangling"
  /\ fatR.thin.of.t = fatR.t
  /\ fatR.t = Slice(BigLen)
  /\ self.ty.name = "[String]"

(* C10: in the default dangling the address of BACKING is aligned for the   *)
(* backing type the metadata identifies, whatever that type, so the probe  *)
(* reference is an aligned non-null reference; the final pointer has the   *)
(* measured alignment as its address and the original metadata.            *)
C10_ProbeAligned ==
  (fatR.op = "dangling" /\ fatR.probe.made) =>
    /\ fatR.probe.addr # 0
    /\ fatR.probe.addr % fatR.probe.align = 0
    /\ fatR.st = "ok" =>
         /\ fatR.ptr.addr = fatR.probe.align
         /\ Carried(self.ty, fatR.ptr) = fatR.t

(* C3: try_type_coerce::<A, B>(a) is Some(a) exactly when A and B are the   *)
(* identical type, None for every other pair, and never panics.            *)
C3_SomeIffIdentical ==
  coerceR.op = "try_type_coerce" =>
    /\ coerceR.st = "ok"
    /\ coerceR.some <=> coerceR.A = coerceR.B
    /\ coerceR.some => coerceR.v = coerceR.a

(* C4: type_coerce::<A, B>(a) returns a when A and B are the identical      *)
(* type and panics, naming both types, whenever they differ.               *)
C4_ReturnsIffIdentical ==
  coerceR.op = "type_coerce" =>
    /\ coerceR.A = coerceR.B => coerceR.st = "ok" /\ coerceR.v = coerceR.a
    /\ coerceR.A # coerceR.B =>
         /\ coerceR.st = "panic"
         /\ coerceR.msg = <<"can't coerce", coerceR.A.name, coerceR.B.name>>

(* C7: within one execution type_id returns the same value for the same     *)
(* type and pairwise different values for different types.                 *)
C7_DeterministicInjective ==
  \A x \in idsR, y \in idsR :
    /\ x.ty = y.ty => x.id = y.id
    /\ x.ty # y.ty => x.id # y.id

====
